---- MODULE Spec2Model ----
(***************************************************************************)
(* A model of maintenance.py: the JSON task loader and validator, the      *)
(* package manager detector, the command executor, the output summarizers  *)
(* and the two orchestrators (run_all_tasks for the batch run, main for    *)
(* the interactive menu).                                                  *)
(*                                                                         *)
(* Text is a sequence of one-character strings, so that strip, lower,      *)
(* splitlines and the substring tests are computed and not assumed.        *)
(* A JSON value is a record [tag, val]; a JSON object is a function from   *)
(* its keys to JSON values.                                                *)
(***************************************************************************)
EXTENDS Naturals, Sequences, FiniteSets, TLC

(***************************************************************************)
(* Bounds of the model.                                                    *)
(***************************************************************************)
\* longest "tasks" list of base.json in the orchestrator specification
MaxBaseLen == 2
\* longest "tasks" list of a source in the loader specification
MaxRecords == 5
\* longest stdout or stderr of a process when run_command is called on its own
MaxStreamLen == 2
\* longest command list of a raw record when validate_task is called on its own
MaxCommandLen == 2
\* most lines of an output when a summarizer is called on its own
MaxLines == 3

(***************************************************************************)
(* Text.                                                                   *)
(***************************************************************************)
Whitespace == {" ", "\n", "\t"}

UpperCase == <<"A","B","C","D","E","F","G","H","I","J","K","L","M",
               "N","O","P","Q","R","S","T","U","V","W","X","Y","Z">>
LowerCase == <<"a","b","c","d","e","f","g","h","i","j","k","l","m",
               "n","o","p","q","r","s","t","u","v","w","x","y","z">>

\* str.lower() on one character
LowerChar(c) ==
    IF \E i \in DOMAIN UpperCase : UpperCase[i] = c
    THEN LowerCase[CHOOSE i \in DOMAIN UpperCase : UpperCase[i] = c]
    ELSE c

\* str.lower()
Lower(s) == [i \in DOMAIN s |-> LowerChar(s[i])]

\* str.strip(): drops leading and trailing whitespace
Strip(s) ==
    LET keep == {i \in DOMAIN s : s[i] \notin Whitespace}
    IN  IF keep = {} THEN <<>>
        ELSE LET lo == CHOOSE i \in keep : \A j \in keep : i <= j
                 hi == CHOOSE i \in keep : \A j \in keep : j <= i
             IN  SubSeq(s, lo, hi)

\* the Python test  sub in s  on two strings
Contains(s, sub) ==
    \E k \in 0..(Len(s) - Len(sub)) :
        \A j \in 1..Len(sub) : s[k + j] = sub[j]

\* str.splitlines(): a final newline ends the last line and opens no new one
RECURSIVE SplitLines(_)
SplitLines(s) ==
    IF s = <<>> THEN <<>>
    ELSE IF \E i \in DOMAIN s : s[i] = "\n"
         THEN LET nl == CHOOSE i \in DOMAIN s :
                            s[i] = "\n" /\ \A j \in 1..(i - 1) : s[j] # "\n"
              IN  <<SubSeq(s, 1, nl - 1)>> \o SplitLines(SubSeq(s, nl + 1, Len(s)))
         ELSE <<s>>

\* "\n".join(lines)
RECURSIVE JoinLines(_)
JoinLines(lines) ==
    IF lines = <<>> THEN <<>>
    ELSE IF Len(lines) = 1 THEN lines[1]
    ELSE lines[1] \o <<"\n">> \o JoinLines(Tail(lines))

Dash == <<"-">>

(***************************************************************************)
(* The words the program looks for or prints.                              *)
(***************************************************************************)
kw_update  == <<"u","p","d","a","t","e">>
kw_upgrade == <<"u","p","g","r","a","d","e">>
kw_remove  == <<"r","e","m","o","v","e">>
kw_removed == <<"r","e","m","o","v","e","d">>
kw_can_be_upgraded ==
    <<"p","a","c","k","a","g","e","s"," ","c","a","n"," ","b","e"," ",
      "u","p","g","r","a","d","e","d">>
kw_up_to_date ==
    <<"a","l","l"," ","p","a","c","k","a","g","e","s"," ","a","r","e"," ",
      "u","p"," ","t","o"," ","d","a","t","e">>
kw_upgraded_comma == <<"u","p","g","r","a","d","e","d",",">>
kw_newly_installed ==
    <<"n","e","w","l","y"," ","i","n","s","t","a","l","l","e","d">>
kw_no_packages ==
    <<"n","o"," ","p","a","c","k","a","g","e","s"," ","w","i","l","l"," ",
      "b","e"," ","u","p","g","r","a","d","e","d">>
msg_not_found ==
    <<"C","o","m","m","a","n","d"," ","n","o","t"," ","f","o","u","n","d",":"," ">>

(***************************************************************************)
(* The output summarizers.                                                 *)
(***************************************************************************)
\* the first line for which hit holds, trimmed; else the last line, trimmed;
\* else the dash
FirstHitOrLast(lines, hits) ==
    IF hits # {}
    THEN Strip(lines[CHOOSE i \in hits : \A j \in hits : i <= j])
    ELSE IF lines # <<>> THEN Strip(lines[Len(lines)]) ELSE Dash

summarize_update_output(output) ==
    LET lines == SplitLines(output)
        hits  == {i \in DOMAIN lines :
                     \/ Contains(Lower(lines[i]), kw_can_be_upgraded)
                     \/ Contains(Lower(lines[i]), kw_up_to_date)}
    IN  FirstHitOrLast(lines, hits)

summarize_upgrade_output(output) ==
    LET lines == SplitLines(output)
        hits  == {i \in DOMAIN lines :
                     \/ /\ Contains(Lower(lines[i]), kw_upgraded_comma)
                        /\ Contains(Lower(lines[i]), kw_newly_installed)
                     \/ Contains(Lower(lines[i]), kw_no_packages)}
    IN  FirstHitOrLast(lines, hits)

summarize_remove_output(output) ==
    LET lines    == SplitLines(output)
        IsHit(l) == Contains(Lower(l), kw_removed)
        relevant == SelectSeq(lines, IsHit)
    IN  IF relevant # <<>> THEN JoinLines(relevant) ELSE Dash

\* the family dispatch of run_all_tasks, lines 348-355
summarize(task_name, output) ==
    IF Contains(Lower(task_name), kw_update) THEN summarize_update_output(output)
    ELSE IF Contains(Lower(task_name), kw_upgrade) THEN summarize_upgrade_output(output)
    ELSE IF Contains(Lower(task_name), kw_remove) THEN summarize_remove_output(output)
    ELSE IF output # <<>> THEN output ELSE Dash

\* a dispatch that asks for "upgrade" before "update"
summarize_single_upgrade_first(name, output) ==
    LET task_name == Lower(name)
    IN  IF Contains(task_name, kw_upgrade) THEN summarize_upgrade_output(output)
        ELSE IF Contains(task_name, kw_update) THEN summarize_update_output(output)
        ELSE IF Contains(task_name, kw_remove) THEN summarize_remove_output(output)
        ELSE IF output # <<>> THEN output ELSE Dash

\* the family dispatch of main, lines 464-472: the name is lowered once
summarize_single(name, output) ==
    LET task_name == Lower(name)
    IN  IF Contains(task_name, kw_update) THEN summarize_update_output(output)
        ELSE IF Contains(task_name, kw_upgrade) THEN summarize_upgrade_output(output)
        ELSE IF Contains(task_name, kw_remove) THEN summarize_remove_output(output)
        ELSE IF output # <<>> THEN output ELSE Dash

(***************************************************************************)
(* JSON values, as json.load returns them.                                 *)
(***************************************************************************)
JStr(s)  == [tag |-> "str",  val |-> s]
JBool(b) == [tag |-> "bool", val |-> b]
JInt(n)  == [tag |-> "int",  val |-> n]
JList(l) == [tag |-> "list", val |-> l]
JDict(d) == [tag |-> "dict", val |-> d]
JNull    == [tag |-> "null", val |-> 0]

\* type(x).__name__
TypeName(v) ==
    IF v.tag = "null" THEN "NoneType" ELSE v.tag

\* dict.get(key, default)
Get(d, key, default) == IF key \in DOMAIN d THEN d[key] ELSE default

k_name        == <<"n","a","m","e">>
k_description == <<"d","e","s","c","r","i","p","t","i","o","n">>
k_command     == <<"c","o","m","m","a","n","d">>

required_fields == <<"name", "description", "command">>
required_chars  == <<k_name, k_description, k_command>>
valid_levels    == {<<"l","o","w">>, <<"m","e","d","i","u","m">>, <<"h","i","g","h">>}

(***************************************************************************)
(* validate_task.  The result is (valid, reason); raised says that the     *)
(* call did not return but raised TypeError (a record that is no mapping). *)
(***************************************************************************)
Verdict(valid, msg, idx, type) ==
    [valid |-> valid, msg |-> msg, idx |-> idx, type |-> type, raised |-> FALSE]
Accept       == Verdict(TRUE, "", 0, "")
Reject(msg)  == Verdict(FALSE, msg, 0, "")
RaiseTypeError ==
    [valid |-> FALSE, msg |-> "TypeError", idx |-> 0, type |-> "", raised |-> TRUE]

\* the Python test  field in task  for the i-th required field
HasField(task, i) ==
    IF task.tag = "dict" THEN required_fields[i] \in DOMAIN task.val
    ELSE IF task.tag = "str" THEN Contains(task.val, required_chars[i])
    ELSE \* a list: membership by equality
         \E j \in DOMAIN task.val :
             task.val[j].tag = "str" /\ task.val[j].val = required_chars[i]

IsBlankOrNoStr(v) == v.tag # "str" \/ Strip(v.val) = <<>>

\* a validator that counts the command items from 1
validate_dict_counts_from_1(t) ==
    IF IsBlankOrNoStr(t["name"])
    THEN Reject("Field 'name' must be a non-empty string")
    ELSE IF IsBlankOrNoStr(t["description"])
    THEN Reject("Field 'description' must be a non-empty string")
    ELSE IF t["command"].tag # "list" \/ Len(t["command"].val) = 0
    THEN Reject("Field 'command' must be a non-empty list")
    ELSE LET cmd == t["command"].val
             bad == {i \in DOMAIN cmd : cmd[i].tag # "str"}
         IN
    IF bad # {}
    THEN LET first == CHOOSE i \in bad : \A j \in bad : i <= j
         IN  Verdict(FALSE, "Command item must be a string", first,
                     TypeName(cmd[first]))
    ELSE IF "auto_safe" \in DOMAIN t /\ t["auto_safe"].tag # "bool"
    THEN Reject("Field 'auto_safe' must be a boolean")
    ELSE IF "requires_sudo" \in DOMAIN t /\ t["requires_sudo"].tag # "bool"
    THEN Reject("Field 'requires_sudo' must be a boolean")
    ELSE IF /\ "risk_level" \in DOMAIN t
            /\ ~(t["risk_level"].tag = "str" /\ t["risk_level"].val \in valid_levels)
    THEN Reject("Field 'risk_level' must be one of low, medium, high")
    ELSE IF "check_command" \in DOMAIN t /\ t["check_command"].tag # "list"
    THEN Reject("Field 'check_command' must be a list")
    ELSE Accept

validate_dict(t) ==
    IF IsBlankOrNoStr(t["name"])
    THEN Reject("Field 'name' must be a non-empty string")
    ELSE IF IsBlankOrNoStr(t["description"])
    THEN Reject("Field 'description' must be a non-empty string")
    ELSE IF t["command"].tag # "list" \/ Len(t["command"].val) = 0
    THEN Reject("Field 'command' must be a non-empty list")
    ELSE LET cmd == t["command"].val
             bad == {i \in DOMAIN cmd : cmd[i].tag # "str"}
         IN
    IF bad # {}
    THEN LET first == CHOOSE i \in bad : \A j \in bad : i <= j
         IN  Verdict(FALSE, "Command item must be a string", first - 1,
                     TypeName(cmd[first]))
    ELSE IF "auto_safe" \in DOMAIN t /\ t["auto_safe"].tag # "bool"
    THEN Reject("Field 'auto_safe' must be a boolean")
    ELSE IF "requires_sudo" \in DOMAIN t /\ t["requires_sudo"].tag # "bool"
    THEN Reject("Field 'requires_sudo' must be a boolean")
    ELSE IF /\ "risk_level" \in DOMAIN t
            /\ ~(t["risk_level"].tag = "str" /\ t["risk_level"].val \in valid_levels)
    THEN Reject("Field 'risk_level' must be one of low, medium, high")
    ELSE IF "check_command" \in DOMAIN t /\ t["check_command"].tag # "list"
    THEN Reject("Field 'check_command' must be a list")
    ELSE Accept

validate_task(task) ==
    IF task.tag \notin {"dict", "str", "list"}
    THEN RaiseTypeError                      \* 'name' in 5
    ELSE LET missing == {i \in 1..3 : ~HasField(task, i)}
         IN
    IF missing # {}
    THEN Verdict(FALSE, "Missing required field",
                 CHOOSE i \in missing : \A j \in missing : i <= j, "")
    ELSE IF task.tag # "dict"
    THEN RaiseTypeError                      \* "..."['name']
    ELSE validate_dict(task.val)

(***************************************************************************)
(* The task sources.  A file is missing, is no JSON, or holds a JSON value.*)
(***************************************************************************)
Missing     == [kind |-> "missing", data |-> JNull]
BadJson     == [kind |-> "badjson", data |-> JNull]
JsonFile(v) == [kind |-> "json", data |-> v]

LogEntry(level, event, n) == [level |-> level, event |-> event, n |-> n]

\* the entries of raw_tasks the loop of load_tasks_from_json visits: the
\* elements of a list, the characters of a string, the keys of a dict;
\* anything else cannot be enumerated
Iterable(raw) == raw.tag \in {"list", "str", "dict"}
Elements(raw) ==
    IF raw.tag = "list" THEN raw.val
    ELSE IF raw.tag = "str" THEN [i \in DOMAIN raw.val |-> JStr(<<raw.val[i]>>)]
    ELSE <<>>   \* the keys of a dict: each is rejected or raises, none is kept

\* a loop that stops at the first invalid record instead of going on
ValidUpTo_stops(elems, n) ==
    LET bad == {i \in 1..n : ~validate_task(elems[i]).valid}
        m   == IF bad = {} THEN n ELSE (CHOOSE i \in bad : \A j \in bad : i <= j) - 1
    IN  [i \in 1..m |-> elems[i].val]

RECURSIVE ValidUpTo(_, _)
\* the valid_tasks list after the first n rounds of the loop
ValidUpTo(elems, n) ==
    IF n = 0 THEN <<>>
    ELSE IF validate_task(elems[n]).valid
         THEN Append(ValidUpTo(elems, n - 1), elems[n].val)
         ELSE ValidUpTo(elems, n - 1)

RECURSIVE RejectLog(_, _)
\* the "Invalid task at index" entries of the first n rounds
RejectLog(elems, n) ==
    IF n = 0 THEN <<>>
    ELSE IF validate_task(elems[n]).valid
         THEN RejectLog(elems, n - 1)
         ELSE Append(RejectLog(elems, n - 1),
                     LogEntry("ERROR", "Invalid task at index", n - 1))

load_tasks_from_json(file) ==
    IF file.kind = "missing"
    THEN [tasks |-> <<>>, log |-> <<LogEntry("WARNING", "Task file not found", 0)>>]
    ELSE IF file.kind = "badjson"
    THEN [tasks |-> <<>>, log |-> <<LogEntry("ERROR", "Invalid JSON", 0)>>]
    ELSE IF file.data.tag # "dict"
    THEN [tasks |-> <<>>, log |-> <<LogEntry("ERROR", "Error loading", 0)>>]
    ELSE LET raw_tasks == Get(file.data.val, "tasks", JList(<<>>))
         IN
    IF ~Iterable(raw_tasks)
    THEN [tasks |-> <<>>, log |-> <<LogEntry("ERROR", "Error loading", 0)>>]
    ELSE LET elems  == Elements(raw_tasks)
             raises == {i \in DOMAIN elems : validate_task(elems[i]).raised}
         IN
    IF raises # {}
    THEN LET r == CHOOSE i \in raises : \A j \in raises : i <= j
         IN  [tasks |-> <<>>,
              log   |-> Append(RejectLog(elems, r - 1),
                               LogEntry("ERROR", "Error loading", 0))]
    ELSE LET valid_tasks == ValidUpTo(elems, Len(elems))
         IN  [tasks |-> valid_tasks,
              log   |-> Append(RejectLog(elems, Len(elems)),
                               LogEntry("INFO", "Loaded valid tasks",
                                        Len(valid_tasks)))]

(***************************************************************************)
(* detect_package_manager.  probes[m] is how the version probe of m ends.  *)
(***************************************************************************)
managers      == <<"apt", "dnf", "pacman", "zypper">>
ManagerNames  == {managers[i] : i \in DOMAIN managers}
ProbeOutcomes == {"exit0", "nonzero", "timeout", "notfound"}
None          == "None"

\* a detector that takes any probe that ran to its end, whatever its exit code
DetectFrom_any_exit(probes, i) ==
    LET ran_to_end == {j \in i..Len(managers) : probes[managers[j]] \in {"exit0", "nonzero"}}
    IN  IF ran_to_end = {}
        THEN [name |-> None, probed |-> SubSeq(managers, i, Len(managers))]
        ELSE LET k == CHOOSE j \in ran_to_end : \A l \in ran_to_end : j <= l
             IN  [name |-> managers[k], probed |-> SubSeq(managers, i, k)]

RECURSIVE DetectFrom(_, _)
DetectFrom(probes, i) ==
    IF i > Len(managers)
    THEN [name |-> None, probed |-> <<>>]
    ELSE IF probes[managers[i]] = "exit0"
    THEN [name |-> managers[i], probed |-> <<managers[i]>>]
    ELSE LET rest == DetectFrom(probes, i + 1)
         IN  [name |-> rest.name, probed |-> <<managers[i]>> \o rest.probed]

detect_package_manager(probes) == DetectFrom(probes, 1)

(***************************************************************************)
(* load_all_tasks: base, then the detected manager's source if that file   *)
(* exists, then optional.                                                  *)
(***************************************************************************)
\* a loader that reads optional.json before the manager's source
load_all_tasks_optional_first(fs, probes) ==
    LET base_tasks  == load_tasks_from_json(fs["base"])
        pkg_manager == detect_package_manager(probes).name
        use_pkg     == pkg_manager # None /\ fs[pkg_manager].kind # "missing"
        pkg_tasks   == IF use_pkg THEN load_tasks_from_json(fs[pkg_manager])
                       ELSE [tasks |-> <<>>, log |-> <<>>]
        optional_tasks == load_tasks_from_json(fs["optional"])
    IN  [tasks |-> base_tasks.tasks \o optional_tasks.tasks \o pkg_tasks.tasks,
         log   |-> base_tasks.log \o optional_tasks.log \o pkg_tasks.log]

\* a loader that gives up when base.json cannot be used
load_all_tasks_aborts(fs, probes) ==
    LET base_tasks  == load_tasks_from_json(fs["base"])
        pkg_manager == detect_package_manager(probes).name
        use_pkg     == pkg_manager # None /\ fs[pkg_manager].kind # "missing"
        pkg_tasks   == IF use_pkg THEN load_tasks_from_json(fs[pkg_manager])
                       ELSE [tasks |-> <<>>, log |-> <<>>]
        optional_tasks == load_tasks_from_json(fs["optional"])
    IN  IF fs["base"].kind # "json"
        THEN [tasks |-> <<>>, log |-> base_tasks.log]
        ELSE [tasks |-> base_tasks.tasks \o pkg_tasks.tasks \o optional_tasks.tasks,
              log   |-> base_tasks.log \o pkg_tasks.log \o optional_tasks.log]

load_all_tasks(fs, probes) ==
    LET base_tasks  == load_tasks_from_json(fs["base"])
        pkg_manager == detect_package_manager(probes).name
        use_pkg     == pkg_manager # None /\ fs[pkg_manager].kind # "missing"
        pkg_tasks   == IF use_pkg THEN load_tasks_from_json(fs[pkg_manager])
                       ELSE [tasks |-> <<>>, log |-> <<>>]
        optional_tasks == load_tasks_from_json(fs["optional"])
        all == base_tasks.tasks \o pkg_tasks.tasks \o optional_tasks.tasks
    IN  [tasks |-> all,
         log   |-> base_tasks.log
                   \o (IF pkg_manager = None
                       THEN <<LogEntry("WARNING", "No supported package manager detected", 0)>>
                       ELSE <<LogEntry("INFO", "Detected package manager", 0)>>)
                   \o pkg_tasks.log
                   \o (IF use_pkg
                       THEN <<LogEntry("INFO", "Loaded manager tasks", Len(pkg_tasks.tasks))>>
                       ELSE <<>>)
                   \o optional_tasks.log
                   \o <<LogEntry("INFO", "Total tasks loaded", Len(all))>>]

(***************************************************************************)
(* run_command.  proc is what subprocess.run does with the command: the    *)
(* process exits with a code and its two streams, or the executable is not *)
(* found.                                                                  *)
(***************************************************************************)
ProcExit(code, out, err) == [kind |-> "exit", code |-> code, stdout |-> out, stderr |-> err]
ProcNotFound == [kind |-> "notfound", code |-> 0, stdout |-> <<>>, stderr |-> <<>>]

\* the exit code run_command reports for a missing executable
NotFoundCode == 127

\* an executor that reports a missing executable like any failed command
run_command_plain_failure(cmd, proc) ==
    IF proc.kind = "notfound"
    THEN [exit_code |-> 1, output |-> <<>>, error |-> <<>>]
    ELSE [exit_code |-> proc.code, output |-> Strip(proc.stdout),
          error |-> Strip(proc.stderr)]

run_command(cmd, proc) ==
    IF proc.kind = "notfound"
    THEN [exit_code |-> NotFoundCode, output |-> <<>>,
          error |-> msg_not_found \o cmd[1].val]
    ELSE [exit_code |-> proc.code, output |-> Strip(proc.stdout),
          error |-> Strip(proc.stderr)]

\* the log lines of one run_command call
run_command_log(proc) ==
    <<LogEntry("INFO", "Executing", 0)>>
    \o (IF proc.kind = "notfound"
        THEN <<LogEntry("ERROR", "Command not found", 0)>>
        ELSE IF proc.code # 0
        THEN <<LogEntry("ERROR", "Command failed", proc.code)>>
        ELSE <<LogEntry("INFO", "Command succeeded", 0)>>)

(***************************************************************************)
(* The pieces of the orchestrators.                                        *)
(***************************************************************************)
\* a batch that takes every task of the catalog
IsAutoSafe_any(task) == TRUE

\* task.get('auto_safe', False)
IsAutoSafe(task) == Get(task, "auto_safe", JBool(FALSE)).val

\* the auto_tasks list of run_all_tasks
AutoTasks(tasks) == SelectSeq(tasks, IsAutoSafe)

\* a sudo check that is left out
SudoMissing_never(task, uid) == FALSE

\* a sudo check with the comparison turned around
SudoMissing_inverted(task, uid) ==
    Get(task, "requires_sudo", JBool(FALSE)).val /\ uid = 0

\* requires_sudo and os.geteuid() != 0
SudoMissing(task, uid) ==
    Get(task, "requires_sudo", JBool(FALSE)).val /\ uid # 0

\* a Result Record that keeps stderr whatever the exit code
ResultRecord_keeps_error(task, r) ==
    [command   |-> task["name"].val,
     exit_code |-> IF r.exit_code = 0 THEN "green check" ELSE "red cross",
     output    |-> summarize(task["name"].val, r.output),
     error     |-> r.error]

\* the Result Record run_all_tasks appends
ResultRecord(task, r) ==
    [command   |-> task["name"].val,
     exit_code |-> IF r.exit_code = 0 THEN "green check" ELSE "red cross",
     output    |-> summarize(task["name"].val, r.output),
     error     |-> IF r.exit_code # 0 THEN r.error ELSE <<>>]

\* a loop without the break
HaltsBatch_never(r) == FALSE

\* if exit_code != 0: ... break
HaltsBatch(r) == r.exit_code # 0

Notification(title, n, name, urgency) ==
    [title |-> title, n |-> n, name |-> name, urgency |-> urgency]

\* one run_command call: who made it, for which task, and what it returned
Ran(origin, task, argv, r) ==
    [origin |-> origin, task |-> task, argv |-> argv,
     exit_code |-> r.exit_code, output |-> r.output, error |-> r.error]

\* an empty catalog that is not noticed
NoTasks_never(tasks) == FALSE

\* if not all_tasks
NoTasks(tasks) == tasks = <<>>

\* a failure that is not notified
FailNotification_none(task_name) == <<>>

\* the notification sent when a batch task fails
FailNotification(task_name) ==
    <<Notification("Maintenance Error", 0, task_name, "Critical")>>

\* a batch end that is not notified
EndNotification_none(results) == <<>>

\* the notification sent when the batch ends
EndNotification(results) ==
    <<Notification("Maintenance Complete", Len(results), <<>>, "Normal")>>

NoTask == [name |-> JStr(<<>>)]

\* something printed on the console; rows are the rows of a table
Printed(text, rows) == [text |-> text, rows |-> rows]

(***************************************************************************)
(* The state.                                                              *)
(***************************************************************************)
VARIABLES
    files,          \* the task sources on disk, by name
    probes,         \* how each package manager's version probe ends
    euid,           \* os.geteuid()
    auto,           \* args.auto
    notifier,       \* what the desktop notifier does: "ok", or the error it raises
    pc,             \* where the program is
    caller,         \* who called run_all_tasks: "entry" (--auto) or "main"
    menu_tasks,     \* all_tasks of main: the catalog the menu shows
    selection,      \* the kind of the selection main read last
    choice_num,     \* choice_num of main, 0 when the selection was no number
    all_tasks,      \* all_tasks of run_all_tasks
    auto_tasks,     \* auto_tasks of run_all_tasks
    task_counter,   \* the loop position of run_all_tasks, from 1
    results_list,   \* results_list of run_all_tasks
    notifications,  \* send_notification calls since the last selection was read
    ran,            \* run_command calls since the last selection was read
    console_out,    \* what was printed since the last selection was read
    log,            \* what was logged since the last selection was read
    arg,            \* the argument of a function that is called on its own
    ret             \* what that call returned

vars == <<files, probes, euid, auto, notifier, pc, caller, menu_tasks, selection, choice_num,
          all_tasks, auto_tasks,
          task_counter, results_list, notifications, ran, console_out, log, arg, ret>>

env == <<files, probes, euid, auto, notifier>>

\* a function called on its own; the orchestrators leave it alone
call == <<arg, ret>>

\* send_notification, lines 145-149: a RuntimeError of the notifier is caught
\* and logged, and the caller goes on.  The log lines of k calls:
send_notification_log(k) ==
    IF notifier = "RuntimeError"
    THEN [i \in 1..k |-> LogEntry("WARNING", "Notification failed", 0)]
    ELSE <<>>

\* line 148 has a handler for RuntimeError alone: any other error of the
\* notifier leaves send_notification, and no caller up to the entry point
\* catches it
send_notification_raises == notifier \notin {"ok", "RuntimeError"}

(***************************************************************************)
(* The inputs the specifications draw from.                                *)
(***************************************************************************)
SeqsUpTo(S, n) == UNION {[1..k -> S] : k \in 0..n}

SourceNames == {"base", "optional"} \cup ManagerNames

TasksFile(records) == JsonFile(JDict([tasks |-> JList(records)]))

t_update ==     \* runs unattended, needs no privilege
    JDict([name        |-> JStr(<<"U","p","d","a","t","e">>),
           description |-> JStr(<<"d">>),
           command     |-> JList(<<JStr(<<"a","p","t">>)>>),
           auto_safe   |-> JBool(TRUE)])
t_upgrade ==    \* runs unattended, needs root
    JDict([name          |-> JStr(<<"u","p","g","r","a","d","e">>),
           description   |-> JStr(<<"d">>),
           command       |-> JList(<<JStr(<<"s","u","d","o">>), JStr(<<"a","p","t">>)>>),
           auto_safe     |-> JBool(TRUE),
           requires_sudo |-> JBool(TRUE)])
t_clean ==      \* no auto_safe key
    JDict([name          |-> JStr(<<"c","l","e","a","n">>),
           description   |-> JStr(<<"d">>),
           command       |-> JList(<<JStr(<<"r","m">>)>>),
           requires_sudo |-> JBool(FALSE)])
t_remove ==     \* auto_safe false, needs root
    JDict([name          |-> JStr(<<"r","e","m","o","v","e">>),
           description   |-> JStr(<<"d">>),
           command       |-> JList(<<JStr(<<"a","p","t">>)>>),
           auto_safe     |-> JBool(FALSE),
           requires_sudo |-> JBool(TRUE),
           risk_level    |-> JStr(<<"l","o","w">>)])
t_nocommand ==  \* invalid: no command
    JDict([name        |-> JStr(<<"x">>),
           description |-> JStr(<<"d">>)])

RawRecords == {t_update, t_upgrade, t_clean, t_remove, t_nocommand}

p_ok   == ProcExit(0, <<"o","k","\n">>, <<>>)
p_warn == ProcExit(0, <<>>, <<"W"," ">>)
p_fail == ProcExit(1, <<>>, <<" ","E","\n">>)
ProcResults == {p_ok, p_warn, p_fail, ProcNotFound}

BaseDocs == {Missing} \cup {TasksFile(l) : l \in SeqsUpTo(RawRecords, MaxBaseLen)}
AptDoc   == TasksFile(<<t_update>>)
OptDocs  == {Missing, TasksFile(<<t_upgrade>>)}

Init ==
    /\ \E b \in BaseDocs, o \in OptDocs :
          files = [n \in SourceNames |->
                      IF n = "base" THEN b
                      ELSE IF n = "apt" THEN AptDoc
                      ELSE IF n = "optional" THEN o
                      ELSE Missing]
    /\ \E x \in {"exit0", "notfound"} :
          probes = [m \in ManagerNames |-> IF m = "apt" THEN x ELSE "notfound"]
    /\ euid \in {0, 1000}
    /\ auto \in BOOLEAN
    /\ notifier \in {"ok", "RuntimeError"}
    /\ pc = "entry"
    /\ caller = "entry"
    /\ menu_tasks = <<>>
    /\ selection = "none"
    /\ choice_num = 0
    /\ all_tasks = <<>>
    /\ auto_tasks = <<>>
    /\ task_counter = 1
    /\ results_list = <<>>
    /\ notifications = <<>>
    /\ ran = <<>>
    /\ console_out = <<>>
    /\ log = <<>>
    /\ arg = <<>>
    /\ ret = <<>>

(***************************************************************************)
(* run_all_tasks.                                                          *)
(***************************************************************************)
\* where run_all_tasks returns to
Return == IF caller = "main" THEN "main_loop" ELSE "exited"

\* lines 303-323: load, the two early returns, the start notification
run_all_tasks_begin ==
    /\ \/ pc = "entry" /\ auto
       \/ pc = "call_run_all"
    /\ LET loaded == load_all_tasks(files, probes)
           autos  == AutoTasks(loaded.tasks)
       IN  /\ all_tasks' = loaded.tasks
           /\ IF NoTasks(loaded.tasks)
              THEN /\ log' = log \o loaded.log \o <<LogEntry("ERROR", "No tasks loaded!", 0)>>
                   /\ console_out' = Append(console_out, Printed("panel: no tasks could be loaded", <<>>))
                   /\ pc' = Return
                   /\ UNCHANGED <<auto_tasks, task_counter, results_list, notifications>>
              ELSE IF autos = <<>>
              THEN /\ auto_tasks' = autos
                   /\ log' = log \o loaded.log
                                 \o <<LogEntry("WARNING", "No auto-safe tasks found", 0)>>
                   /\ pc' = Return
                   /\ UNCHANGED <<task_counter, results_list, notifications, console_out>>
              ELSE /\ auto_tasks' = autos
                   /\ results_list' = <<>>
                   /\ task_counter' = 1
                   /\ log' = log \o loaded.log
                                 \o <<LogEntry("INFO", "Starting automated run", Len(autos))>>
                                 \o send_notification_log(1)
                   /\ notifications' = Append(notifications,
                          Notification("Maintenance Started", Len(autos), <<>>, "Normal"))
                   /\ pc' = IF send_notification_raises THEN "crashed" ELSE "batch_loop"
                   /\ UNCHANGED console_out
    /\ UNCHANGED <<env, call, caller, menu_tasks, selection, choice_num, ran>>

\* lines 328-341: the sudo check fails, the task is skipped
run_all_tasks_skip ==
    /\ pc = "batch_loop"
    /\ task_counter <= Len(auto_tasks)
    /\ SudoMissing(auto_tasks[task_counter], euid)
    /\ log' = Append(log, LogEntry("WARNING", "requires sudo but not running as root",
                                   task_counter))
    /\ console_out' = Append(console_out, Printed("panel: requires sudo", <<>>))
    /\ task_counter' = task_counter + 1
    /\ UNCHANGED <<env, call, pc, caller, menu_tasks, selection, choice_num, all_tasks,
                   auto_tasks, results_list, notifications, ran>>

\* lines 343-368: the task runs and its Result Record is appended
run_all_tasks_run ==
    /\ pc = "batch_loop"
    /\ task_counter <= Len(auto_tasks)
    /\ ~SudoMissing(auto_tasks[task_counter], euid)
    /\ \E proc \in ProcResults :
          LET task == auto_tasks[task_counter]
              r    == run_command(task["command"].val, proc)
          IN  /\ ran' = Append(ran, Ran("batch", task, task["command"].val, r))
              /\ log' = log \o <<LogEntry("INFO", "Running task", task_counter)>>
                            \o run_command_log(proc)
              /\ results_list' = Append(results_list, ResultRecord(task, r))
              /\ IF HaltsBatch(r)
                 THEN pc' = "batch_failed" /\ UNCHANGED task_counter
                 ELSE pc' = "batch_loop" /\ task_counter' = task_counter + 1
    /\ UNCHANGED <<env, call, caller, menu_tasks, selection, choice_num, all_tasks, auto_tasks,
                   notifications, console_out>>

\* lines 370-383: the failure is notified and the loop is left
run_all_tasks_fail ==
    /\ pc = "batch_failed"
    /\ log' = Append(log, LogEntry("ERROR", "Task failed", task_counter))
               \o send_notification_log(1)
    /\ notifications' = notifications
                         \o FailNotification(auto_tasks[task_counter]["name"].val)
    /\ IF send_notification_raises
       THEN pc' = "crashed" /\ UNCHANGED console_out
       ELSE /\ console_out' = Append(console_out,
                                     Printed("panel: task failed, cancelling action", <<>>))
            /\ pc' = "batch_finish"
    /\ UNCHANGED <<env, call, caller, menu_tasks, selection, choice_num, all_tasks, auto_tasks,
                   task_counter, results_list, ran>>

\* a batch that ends without showing its results
SummaryTable_none(results) == <<>>

\* lines 385-397 and 400: the table of the Result Records, printed
SummaryTable(results) == <<Printed("table: Maintenance Summary", results)>>

\* lines 385-400: the end notification and the summary table
run_all_tasks_finish ==
    /\ \/ pc = "batch_finish"
       \/ pc = "batch_loop" /\ task_counter > Len(auto_tasks)
    /\ notifications' = notifications \o EndNotification(results_list)
    /\ log' = log \o send_notification_log(1)
    /\ IF send_notification_raises
       THEN pc' = "crashed" /\ UNCHANGED console_out
       ELSE /\ console_out' = console_out \o SummaryTable(results_list)
            /\ pc' = Return
    /\ UNCHANGED <<env, call, caller, menu_tasks, selection, choice_num, all_tasks, auto_tasks,
                   task_counter, results_list, ran>>

(***************************************************************************)
(* main.  Reading a selection opens a new observation window: the four     *)
(* effect variables then hold what this selection caused.                  *)
(***************************************************************************)
\* lines 406-437: load, the early return, the menu, the panel of the first
\* round of the loop (first_run is false from then on)
main_begin ==
    /\ pc = "entry" /\ ~auto
    /\ LET loaded == load_all_tasks(files, probes)
       IN  /\ menu_tasks' = loaded.tasks
           /\ log' = log \o loaded.log
           /\ IF NoTasks(loaded.tasks)
              THEN /\ console_out' = Append(console_out,
                                            Printed("panel: no tasks could be loaded", <<>>))
                   /\ pc' = "exited"
              ELSE /\ console_out' = console_out
                          \o <<Printed("table: Linux Maintenance", loaded.tasks),
                               Printed("panel: most tasks require sudo", <<>>)>>
                   /\ pc' = "main_loop"
    /\ UNCHANGED <<env, call, caller, selection, choice_num, all_tasks, auto_tasks,
                   task_counter, results_list, notifications, ran>>

\* the numbers a user may type at a menu of n tasks
Choices(n) == 0..(n + 1)

\* 1 <= choice_num <= max_choice
InMenu(n, tasks) == 1 <= n /\ n <= Len(tasks)

\* the locals of run_all_tasks are gone once it has returned: when main reads
\* the next selection they hold nothing
NoBatch ==
    /\ all_tasks' = <<>>
    /\ auto_tasks' = <<>>
    /\ task_counter' = 1
    /\ results_list' = <<>>

\* a refusal after which main asks for the next selection
main_task_denied_continues ==
    /\ pc = "main_loop"
    /\ \E n \in Choices(Len(menu_tasks)) :
          /\ InMenu(n, menu_tasks)
          /\ SudoMissing(menu_tasks[n], euid)
          /\ choice_num' = n
          /\ log' = <<LogEntry("WARNING", "requires sudo but not running as root", n)>>
    /\ selection' = "digits"
    /\ console_out' = <<Printed("panel: requires sudo", <<>>)>>
    /\ notifications' = <<>>
    /\ ran' = <<>>
    /\ pc' = "main_loop"
    /\ NoBatch
    /\ UNCHANGED <<env, call, caller, menu_tasks>>

\* lines 447-459: a task that needs root is selected by a user who is not root
main_task_denied ==
    /\ pc = "main_loop"
    /\ \E n \in Choices(Len(menu_tasks)) :
          /\ InMenu(n, menu_tasks)
          /\ SudoMissing(menu_tasks[n], euid)
          /\ choice_num' = n
          /\ log' = <<LogEntry("WARNING", "requires sudo but not running as root", n)>>
    /\ selection' = "digits"
    /\ console_out' = <<Printed("panel: requires sudo", <<>>)>>
    /\ notifications' = <<>>
    /\ ran' = <<>>
    /\ pc' = "exited"
    /\ NoBatch
    /\ UNCHANGED <<env, call, caller, menu_tasks>>

\* a success that is announced as an error, and an error as a success
TaskNotification_swapped(task_name, exit_code) ==
    IF exit_code = 0
    THEN <<Notification("Task Error", 0, task_name, "Critical")>>
    ELSE <<Notification("Task Completed", 0, task_name, "Normal")>>

\* lines 474-489: the notification of a single task's outcome
TaskNotification(task_name, exit_code) ==
    IF exit_code = 0
    THEN <<Notification("Task Completed", 0, task_name, "Normal")>>
    ELSE <<Notification("Task Error", 0, task_name, "Critical")>>

\* lines 447-495: the selected task runs and its outcome is notified
main_task_run ==
    /\ pc = "main_loop"
    /\ \E n \in Choices(Len(menu_tasks)), proc \in ProcResults :
          /\ InMenu(n, menu_tasks)
          /\ ~SudoMissing(menu_tasks[n], euid)
          /\ choice_num' = n
          /\ LET task == menu_tasks[n]
                 r    == run_command(task["command"].val, proc)
                 summary == summarize_single(task["name"].val, r.output)
             IN  /\ ran' = <<Ran("single", task, task["command"].val, r)>>
                 /\ log' = run_command_log(proc) \o send_notification_log(1)
                 /\ notifications' = TaskNotification(task["name"].val, r.exit_code)
                 /\ console_out' =
                       IF send_notification_raises THEN <<>>
                       ELSE IF r.exit_code = 0
                       THEN <<Printed("panel: task completed successfully", <<summary>>)>>
                       ELSE <<Printed("panel: task encountered an error", <<>>)>>
    /\ selection' = "digits"
    /\ pc' = IF send_notification_raises THEN "crashed" ELSE "main_loop"
    /\ NoBatch
    /\ UNCHANGED <<env, call, caller, menu_tasks>>

\* lines 496-497: a number outside the menu
main_bad_number ==
    /\ pc = "main_loop"
    /\ \E n \in Choices(Len(menu_tasks)) :
          /\ ~InMenu(n, menu_tasks)
          /\ choice_num' = n
    /\ selection' = "digits"
    /\ console_out' = <<Printed("Invalid selection", <<>>)>>
    /\ notifications' = <<>>
    /\ ran' = <<>>
    /\ log' = <<>>
    /\ NoBatch
    /\ UNCHANGED <<env, call, pc, caller, menu_tasks>>

\* lines 499-500: 'all' calls run_all_tasks, which loads the catalog anew
main_all ==
    /\ pc = "main_loop"
    /\ pc' = "call_run_all"
    /\ caller' = "main"
    /\ selection' = "all"
    /\ choice_num' = 0
    /\ console_out' = <<>>
    /\ notifications' = <<>>
    /\ ran' = <<>>
    /\ log' = <<>>
    /\ NoBatch
    /\ UNCHANGED <<env, call, menu_tasks>>

\* lines 501-503: 'q' or 'Q'
main_quit ==
    /\ pc = "main_loop"
    /\ pc' = "exited"
    /\ selection' = "q"
    /\ choice_num' = 0
    /\ console_out' = <<Printed("panel: Exiting...", <<>>)>>
    /\ notifications' = <<>>
    /\ ran' = <<>>
    /\ log' = <<>>
    /\ NoBatch
    /\ UNCHANGED <<env, call, caller, menu_tasks>>

c_true  == <<JStr(<<"t","r","u","e">>)>>
c_false == <<JStr(<<"f","a","l","s","e">>)>>
c_this_does_not_exist ==
    <<JStr(<<"t","h","i","s","-","d","o","e","s","-","n","o","t","-","e","x","i","s","t">>)>>

\* lines 504-532: 'test' runs true, false and a command that does not exist
main_test ==
    /\ pc = "main_loop"
    /\ selection' = "test"
    /\ choice_num' = 0
    /\ LET p_true  == ProcExit(0, <<>>, <<>>)
           p_false == ProcExit(1, <<>>, <<>>)
       IN  IF send_notification_raises
           THEN \* the first notification ends the program
                /\ ran' = <<Ran("test", NoTask, c_true, run_command(c_true, p_true))>>
                /\ log' = run_command_log(p_true)
                /\ notifications' = <<Notification("Test Completed", 0, <<>>, "Normal")>>
                /\ console_out' = <<>>
                /\ pc' = "crashed"
           ELSE /\ ran' = <<Ran("test", NoTask, c_true, run_command(c_true, p_true)),
                            Ran("test", NoTask, c_false, run_command(c_false, p_false)),
                            Ran("test", NoTask, c_this_does_not_exist,
                                run_command(c_this_does_not_exist, ProcNotFound))>>
                /\ log' = run_command_log(p_true) \o send_notification_log(1)
                          \o run_command_log(p_false) \o send_notification_log(1)
                          \o run_command_log(ProcNotFound) \o send_notification_log(1)
                /\ notifications' = <<Notification("Test Completed", 0, <<>>, "Normal"),
                                      Notification("Test Completed", 0, <<>>, "Critical"),
                                      Notification("Test Completed", 0, <<>>, "Critical")>>
                /\ console_out' = <<Printed("panel: tests complete", <<>>)>>
                /\ pc' = "main_loop"
    /\ NoBatch
    /\ UNCHANGED <<env, call, caller, menu_tasks>>

\* lines 533-534: anything else, 'ALL' included
main_invalid ==
    /\ pc = "main_loop"
    /\ selection' = "other"
    /\ choice_num' = 0
    /\ console_out' = <<Printed("Invalid selection, or 'q' to quit", <<>>)>>
    /\ notifications' = <<>>
    /\ ran' = <<>>
    /\ log' = <<>>
    /\ NoBatch
    /\ UNCHANGED <<env, call, pc, caller, menu_tasks>>

Next ==
    \/ run_all_tasks_begin
    \/ run_all_tasks_skip
    \/ run_all_tasks_run
    \/ run_all_tasks_fail
    \/ run_all_tasks_finish
    \/ main_begin
    \/ main_task_denied
    \/ main_task_run
    \/ main_bad_number
    \/ main_all
    \/ main_quit
    \/ main_test
    \/ main_invalid

Spec == Init /\ [][Next]_vars

(***************************************************************************)
(* What the properties below speak of.                                     *)
(***************************************************************************)
\* run_all_tasks is past its two early returns and has not returned
InBatch == pc \in {"batch_loop", "batch_failed", "batch_finish"}

\* run_all_tasks has returned and no selection was read since
BatchReturned ==
    \/ auto /\ pc = "exited"
    \/ ~auto /\ selection = "all" /\ pc = "main_loop"

\* the effect variables hold the effects of one batch run
BatchWindow == InBatch \/ BatchReturned

\* the batch run of the window got past the early returns
BatchStarted == BatchWindow /\ notifications # <<>>

Titles == [i \in DOMAIN notifications |-> notifications[i].title]
Count(title) == Cardinality({i \in DOMAIN notifications : notifications[i].title = title})

RanTasks == [i \in DOMAIN ran |-> ran[i].task]

SomeFailure == \E i \in DOMAIN ran : ran[i].exit_code # 0

\* the task's record says requires_sudo: true
NeedsSudo(task) == "requires_sudo" \in DOMAIN task /\ task["requires_sudo"].val

\* the task's record says auto_safe: true
MayRunUnattended(task) == "auto_safe" \in DOMAIN task /\ task["auto_safe"].val

\* the auto-safe subset of a catalog, in catalog order
AutoSubset(catalog) == SelectSeq(catalog, MayRunUnattended)

Runnable(task) == ~NeedsSudo(task)

RECURSIVE IsSubseq(_, _)
\* s can be had from t by leaving elements out
IsSubseq(s, t) ==
    IF s = <<>> THEN TRUE
    ELSE IF t = <<>> THEN FALSE
    ELSE IF Head(s) = Head(t) THEN IsSubseq(Tail(s), Tail(t))
    ELSE IsSubseq(s, Tail(t))

IsPrefix(s, t) == Len(s) <= Len(t) /\ SubSeq(t, 1, Len(s)) = s

(***************************************************************************)
(* C1.  Batch halt: in a batch run every command that was run has its      *)
(* Result Record, in order, and a command that returned a non-zero exit    *)
(* code (127 for a missing executable included) is the last one run: no    *)
(* later task of the batch is executed, so [T1 success, T2 failure,        *)
(* T3 success] ends with the records (T1, T2).                             *)
(***************************************************************************)
C1_HaltOnFailure ==
    BatchStarted =>
        /\ Len(results_list) = Len(ran)
        /\ \A i \in DOMAIN ran :
              /\ results_list[i].command = ran[i].task["name"].val
              /\ results_list[i].exit_code =
                     (IF ran[i].exit_code = 0 THEN "green check" ELSE "red cross")
              /\ ran[i].exit_code # 0 => i = Len(ran)

\* three runnable auto-safe tasks, the second not found: two records, T3 not run
C1_Witness ==
    /\ BatchReturned
    /\ Len(auto_tasks) = 3
    /\ \A i \in 1..3 : ~NeedsSudo(auto_tasks[i])
    /\ Len(ran) = 2
    /\ ran[1].exit_code = 0
    /\ ran[2].exit_code = NotFoundCode
    /\ Len(results_list) = 2
    /\ results_list[2].exit_code = "red cross"

(***************************************************************************)
(* C2.  Sudo skip: in a batch run without root no task that requires sudo  *)
(* is run or recorded, and skipping does not stop the batch: the tasks run *)
(* are a prefix of the auto-safe tasks that need no sudo, and all of them  *)
(* when the run has returned without a failure.                            *)
(***************************************************************************)
C2_SudoSkipContinues ==
    BatchStarted /\ euid # 0 =>
        /\ \A i \in DOMAIN ran : ~NeedsSudo(ran[i].task)
        /\ Len(results_list) = Len(ran)
        /\ IsPrefix(RanTasks, SelectSeq(AutoSubset(all_tasks), Runnable))
        /\ BatchReturned /\ ~SomeFailure =>
               RanTasks = SelectSeq(AutoSubset(all_tasks), Runnable)

\* [T1 requires sudo, T2 succeeds] without root: the results are (T2)
C2_Witness ==
    /\ BatchReturned
    /\ euid # 0
    /\ Len(auto_tasks) = 2
    /\ NeedsSudo(auto_tasks[1])
    /\ ~NeedsSudo(auto_tasks[2])
    /\ Len(results_list) = 1
    /\ results_list[1].command = auto_tasks[2]["name"].val
    /\ results_list[1].exit_code = "green check"

(***************************************************************************)
(* C3.  As claimed: every batch run that has returned has sent exactly one *)
(* start and exactly one end notification, also when no task executed      *)
(* because the auto-safe subset of a non-empty catalog is empty.           *)
(***************************************************************************)
C3_Original ==
    BatchReturned /\ all_tasks # <<>> =>
        /\ Count("Maintenance Started") = 1
        /\ Count("Maintenance Complete") = 1

(***************************************************************************)
(* C3, amended.  A batch run whose auto-safe subset is not empty sends     *)
(* exactly one start notification, before its first task, and exactly one  *)
(* end notification, when it returns; a batch run whose catalog or         *)
(* auto-safe subset is empty returns without any notification.             *)
(***************************************************************************)
C3_StartEndOncePerNonEmptyRun ==
    /\ InBatch =>
          /\ Count("Maintenance Started") = 1
          /\ Count("Maintenance Complete") = 0
    /\ BatchReturned =>
          IF AutoSubset(all_tasks) # <<>>
          THEN /\ Count("Maintenance Started") = 1
               /\ Count("Maintenance Complete") = 1
          ELSE notifications = <<>>

\* every task of the batch was skipped for sudo: still one start, one end
C3_Witness ==
    /\ BatchReturned
    /\ auto_tasks # <<>>
    /\ ran = <<>>
    /\ Titles = <<"Maintenance Started", "Maintenance Complete">>

(***************************************************************************)
(* C4.  Failure notification: the notifications of a batch run are the     *)
(* start, then at most one Critical failure notification, then the end;    *)
(* the failure notification is there exactly when a command returned a     *)
(* non-zero exit code, names that task and comes after its Result Record   *)
(* was appended; nothing is notified for a skipped task.                   *)
(***************************************************************************)
C4_FailureNotification ==
    BatchWindow =>
        /\ Titles \in {<<>>,
                       <<"Maintenance Started">>,
                       <<"Maintenance Started", "Maintenance Error">>,
                       <<"Maintenance Started", "Maintenance Complete">>,
                       <<"Maintenance Started", "Maintenance Error",
                         "Maintenance Complete">>}
        /\ BatchReturned => Titles = <<>> \/ Titles[Len(Titles)] = "Maintenance Complete"
        /\ \A i \in DOMAIN notifications :
              notifications[i].urgency = "Critical"
                  <=> notifications[i].title = "Maintenance Error"
        /\ \A i \in DOMAIN notifications :
              notifications[i].title = "Maintenance Error" =>
                  /\ ran # <<>>
                  /\ ran[Len(ran)].exit_code # 0
                  /\ notifications[i].name = ran[Len(ran)].task["name"].val
                  /\ Len(results_list) = Len(ran)
                  /\ results_list[Len(ran)].exit_code = "red cross"
        /\ SomeFailure /\ pc # "batch_failed" => Count("Maintenance Error") = 1

\* a task skipped for sudo, then a failing task: start, error, end
C4_Witness ==
    /\ BatchReturned
    /\ \E i \in DOMAIN console_out : console_out[i].text = "panel: requires sudo"
    /\ Len(ran) = 1
    /\ Titles = <<"Maintenance Started", "Maintenance Error", "Maintenance Complete">>

(***************************************************************************)
(* C5.  Single-task sudo precondition: when the selected task requires     *)
(* sudo and the user is not root, no command is run and nothing but the    *)
(* privilege panel is reported: no notification and none of the panels of  *)
(* an executed task.                                                       *)
(***************************************************************************)
SelectedNeedsSudo ==
    /\ selection = "digits"
    /\ InMenu(choice_num, menu_tasks)
    /\ NeedsSudo(menu_tasks[choice_num])
    /\ euid # 0

C5_SingleTaskSudoNotRun ==
    SelectedNeedsSudo =>
        /\ ran = <<>>
        /\ notifications = <<>>
        /\ console_out = <<Printed("panel: requires sudo", <<>>)>>

C5_Witness == SelectedNeedsSudo /\ pc = "exited"

(***************************************************************************)
(* C6.  Batch selection: the tasks a batch run executes are, in catalog    *)
(* order and each at most once, tasks of the catalog whose auto_safe is    *)
(* true; a task whose auto_safe is false or absent is never executed.      *)
(***************************************************************************)
C6_BatchRunsAutoSafeInOrder ==
    BatchWindow =>
        /\ \A i \in DOMAIN ran : ran[i].origin = "batch" /\ MayRunUnattended(ran[i].task)
        /\ IsSubseq(RanTasks, AutoSubset(all_tasks))
        /\ IsSubseq(RanTasks, all_tasks)

\* a catalog that opens with a task without auto_safe and one with auto_safe
\* false, and a batch that ran a later task twice in the catalog
C6_Witness ==
    /\ BatchReturned
    /\ Len(all_tasks) >= 3
    /\ "auto_safe" \notin DOMAIN all_tasks[1]
    /\ "auto_safe" \in DOMAIN all_tasks[2] /\ ~all_tasks[2]["auto_safe"].val
    /\ Len(ran) >= 1

(***************************************************************************)
(* C7.  Results list: a batch run starts with an empty results_list, and   *)
(* each of its steps leaves the list alone or appends one record together  *)
(* with the command that just finished; a record of a task that exited 0   *)
(* has an empty error string, a record of a failed task has the error      *)
(* string run_command returned.                                            *)
(***************************************************************************)
C7_RecordsMatchRuns ==
    BatchStarted =>
        /\ Len(results_list) = Len(ran)
        /\ \A i \in DOMAIN ran :
              results_list[i].error =
                  (IF ran[i].exit_code = 0 THEN <<>> ELSE ran[i].error)

C7_Step ==
    /\ ~InBatch /\ pc' = "batch_loop" => results_list' = <<>>
    /\ InBatch =>
          \/ results_list' = results_list /\ ran' = ran
          \/ /\ Len(ran') = Len(ran) + 1
             /\ Len(results_list') = Len(results_list) + 1
             /\ SubSeq(results_list', 1, Len(results_list)) = results_list
             /\ SubSeq(ran', 1, Len(ran)) = ran

C7_ResultsAppendOnly == [](C7_RecordsMatchRuns) /\ [][C7_Step]_vars

\* a success that wrote to stderr, then a failure: errors "" and stderr
C7_Witness ==
    /\ InBatch
    /\ Len(results_list) = 2
    /\ ran[1].exit_code = 0 /\ ran[1].error # <<>>
    /\ results_list[1].error = <<>>
    /\ ran[2].exit_code # 0 /\ ran[2].exit_code # NotFoundCode
    /\ results_list[2].error = ran[2].error /\ ran[2].error # <<>>

(***************************************************************************)
(* C8.  Empty catalog: when load_all_tasks yields no task, no command is   *)
(* run, no batch task is started, nothing is notified and no selection is  *)
(* read: both orchestrators print the error panel and return.              *)
(***************************************************************************)
CatalogEmpty == load_all_tasks(files, probes).tasks = <<>>

C8_EmptyCatalogHardStop ==
    CatalogEmpty =>
        /\ pc \in {"entry", "exited"}
        /\ ran = <<>>
        /\ notifications = <<>>
        /\ results_list = <<>>
        /\ selection = "none"
        /\ pc = "exited" =>
               console_out = <<Printed("panel: no tasks could be loaded", <<>>)>>

\* the interactive run of a base source that holds only an invalid record
C8_Witness ==
    /\ CatalogEmpty
    /\ ~auto
    /\ pc = "exited"
    /\ files["base"].kind = "json"

(***************************************************************************)
(* The loader on its own: the sources are drawn from wider sets and the    *)
(* program gets as far as its call of load_all_tasks.                      *)
(***************************************************************************)
LoadRecords == {t_update, t_clean, t_nocommand}

\* sources that are no list of mappings, or no task list at all
OddDocs ==
    {Missing, BadJson,
     JsonFile(JList(<<>>)),
     JsonFile(JDict([other |-> JInt(1)])),
     JsonFile(JDict([tasks |-> JInt(5)])),
     TasksFile(<<t_update, JInt(5)>>),
     TasksFile(<<JNull, t_update, t_clean>>),
     TasksFile(<<t_clean, JStr(<<"x">>), t_update>>)}

LoadDocs == OddDocs \cup {TasksFile(l) : l \in SeqsUpTo(LoadRecords, MaxRecords)}

InitLoad ==
    /\ \E b \in LoadDocs,
          a \in {Missing, BadJson, TasksFile(<<t_upgrade>>)},
          d \in {Missing, TasksFile(<<t_clean>>)},
          o \in {Missing, TasksFile(<<t_remove>>)} :
          files = [n \in SourceNames |->
                      IF n = "base" THEN b
                      ELSE IF n = "apt" THEN a
                      ELSE IF n = "dnf" THEN d
                      ELSE IF n = "optional" THEN o
                      ELSE Missing]
    /\ \E x \in {"exit0", "nonzero"}, y \in {"exit0", "timeout"} :
          probes = [m \in ManagerNames |->
                       IF m = "apt" THEN x ELSE IF m = "dnf" THEN y ELSE "notfound"]
    /\ euid = 1000
    /\ auto = TRUE
    /\ notifier = "ok"
    /\ pc = "load"
    /\ caller = "entry"
    /\ menu_tasks = <<>>
    /\ selection = "none"
    /\ choice_num = 0
    /\ all_tasks = <<>>
    /\ auto_tasks = <<>>
    /\ task_counter = 1
    /\ results_list = <<>>
    /\ notifications = <<>>
    /\ ran = <<>>
    /\ console_out = <<>>
    /\ log = <<>>
    /\ arg = <<>>
    /\ ret = <<>>

\* all_tasks = load_all_tasks()
load_catalog ==
    /\ pc = "load"
    /\ LET loaded == load_all_tasks(files, probes)
       IN  /\ all_tasks' = loaded.tasks
           /\ log' = log \o loaded.log
    /\ pc' = "loaded"
    /\ UNCHANGED <<env, call, caller, menu_tasks, selection, choice_num, auto_tasks,
                   task_counter, results_list, notifications, ran, console_out>>

NextLoad == load_catalog

SpecLoad == InitLoad /\ [][NextLoad]_vars

\* the "tasks" list of a source whose tasks are a list of mappings
IsRecordList(file) ==
    /\ file.kind = "json"
    /\ file.data.tag = "dict"
    /\ "tasks" \in DOMAIN file.data.val
    /\ file.data.val["tasks"].tag = "list"
    /\ \A i \in DOMAIN file.data.val["tasks"].val :
          file.data.val["tasks"].val[i].tag = "dict"

RawTasks(file) == file.data.val["tasks"].val

\* the records of l that pass validation, in their order in l
ValidIndexes(l) == {i \in DOMAIN l : validate_task(l[i]).valid}
Kept(l) ==
    [k \in 1..Cardinality(ValidIndexes(l)) |->
        l[CHOOSE i \in ValidIndexes(l) :
              Cardinality({j \in ValidIndexes(l) : j <= i}) = k].val]

\* the manager the probes select: the first of the fixed order that exits 0
Detected ==
    LET ok == {i \in DOMAIN managers : probes[managers[i]] = "exit0"}
    IN  IF ok = {} THEN None ELSE managers[CHOOSE i \in ok : \A j \in ok : i <= j]

ValidOf(n) == load_tasks_from_json(files[n]).tasks

(***************************************************************************)
(* C9.  Catalog order: the catalog is the valid tasks of base, then those  *)
(* of the detected manager's source when a manager is detected and its     *)
(* source exists, then those of optional; base=[A,B], manager=[C],         *)
(* optional=[D] gives [A,B,C,D].                                           *)
(***************************************************************************)
ABCD ==
    /\ files["base"] = TasksFile(<<t_update, t_clean>>)
    /\ Detected = "apt"
    /\ files["apt"] = TasksFile(<<t_upgrade>>)
    /\ files["optional"] = TasksFile(<<t_remove>>)

C9_CatalogOrder ==
    pc = "loaded" =>
        /\ all_tasks =
              ValidOf("base")
              \o (IF Detected # None /\ files[Detected].kind # "missing"
                  THEN ValidOf(Detected) ELSE <<>>)
              \o ValidOf("optional")
        /\ ABCD => all_tasks = <<t_update.val, t_clean.val, t_upgrade.val, t_remove.val>>

C9_Witness == pc = "loaded" /\ ABCD /\ Len(all_tasks) = 4

(***************************************************************************)
(* C10.  Loader keeps the valid records: for a source whose tasks are a    *)
(* list of mappings load_tasks_from_json returns the records that pass     *)
(* validation, all of them and in their order, whatever invalid records    *)
(* stand between them; 3 valid and 2 invalid records give 3 tasks.         *)
(***************************************************************************)
C10_LoaderKeepsValidInOrder ==
    pc = "loaded" =>
        /\ \A n \in SourceNames :
              IsRecordList(files[n]) => ValidOf(n) = Kept(RawTasks(files[n]))
        /\ IsRecordList(files["base"]) =>
              IsPrefix(Kept(RawTasks(files["base"])), all_tasks)

\* invalid, valid, invalid, valid, valid: the catalog starts with the 3 valid
C10_Witness ==
    /\ pc = "loaded"
    /\ files["base"] = TasksFile(<<t_nocommand, t_update, t_nocommand, t_clean, t_update>>)
    /\ SubSeq(all_tasks, 1, 3) = <<t_update.val, t_clean.val, t_update.val>>
    /\ files["optional"] = Missing
    /\ Detected = None
    /\ Len(all_tasks) = 3

(***************************************************************************)
(* C11.  A missing or malformed source never aborts the load: for a source *)
(* that is missing, is no JSON, or does not hold a list of task mappings   *)
(* load_tasks_from_json returns the empty list, and the catalog is still   *)
(* the valid tasks of the other sources in their usual order.              *)
(***************************************************************************)
\* the source is there but is not parseable as the expected structure, a
\* mapping whose "tasks" is a list
Malformed(file) ==
    \/ file.kind = "badjson"
    \/ /\ file.kind = "json"
       /\ \/ file.data.tag # "dict"
          \/ "tasks" \notin DOMAIN file.data.val
          \/ file.data.val["tasks"].tag # "list"

Unusable(file) == file.kind = "missing" \/ Malformed(file)

\* what a source should add to the catalog
Contribution(n) ==
    IF Unusable(files[n]) THEN <<>>
    ELSE IF IsRecordList(files[n]) THEN Kept(RawTasks(files[n]))
    ELSE ValidOf(n)   \* a list with entries that are no mappings

C11_BadSourceNeverAborts ==
    pc = "loaded" =>
        /\ \A n \in SourceNames : Unusable(files[n]) => ValidOf(n) = <<>>
        /\ all_tasks =
              Contribution("base")
              \o (IF Detected # None THEN Contribution(Detected) ELSE <<>>)
              \o Contribution("optional")

\* base is no JSON, the manager's source and optional still load
C11_Witness ==
    /\ pc = "loaded"
    /\ files["base"] = BadJson
    /\ Detected = "dnf"
    /\ files["apt"] = BadJson
    /\ files["dnf"] = TasksFile(<<t_clean>>)
    /\ files["optional"] = TasksFile(<<t_remove>>)
    /\ all_tasks = <<t_clean.val, t_remove.val>>

(***************************************************************************)
(* Functions called on their own.  While one is called the orchestrators   *)
(* do nothing: their variables keep these values.                          *)
(***************************************************************************)
OrchestratorsIdle ==
    /\ files = [n \in SourceNames |-> Missing]
    /\ probes = [m \in ManagerNames |-> "notfound"]
    /\ euid = 1000
    /\ auto = FALSE
    /\ notifier = "ok"
    /\ caller = "entry"
    /\ menu_tasks = <<>>
    /\ selection = "none"
    /\ choice_num = 0
    /\ all_tasks = <<>>
    /\ auto_tasks = <<>>
    /\ task_counter = 1
    /\ results_list = <<>>
    /\ notifications = <<>>
    /\ ran = <<>>
    /\ console_out = <<>>

orchestrators == <<env, caller, menu_tasks, selection, choice_num, all_tasks, auto_tasks,
                   task_counter, results_list, notifications, ran, console_out>>

(***************************************************************************)
(* run_command on its own: the command and what the process does with it   *)
(* are drawn, then the call returns.                                       *)
(***************************************************************************)
StreamChars == {"a", " ", "\n"}
Streams     == SeqsUpTo(StreamChars, MaxStreamLen)
ExitCodes   == {0, 1, 127}
Commands    == {c_false, c_this_does_not_exist}
RunProcs    ==
    {ProcNotFound} \cup {ProcExit(c, o, e) : c \in ExitCodes, o \in Streams, e \in Streams}

InitRun ==
    /\ arg \in [cmd : Commands, proc : RunProcs]
    /\ ret = <<>>
    /\ pc = "call"
    /\ log = <<>>
    /\ OrchestratorsIdle

\* exit_code, output, error = run_command(cmd)
call_run_command ==
    /\ pc = "call"
    /\ ret' = run_command(arg.cmd, arg.proc)
    /\ log' = log \o run_command_log(arg.proc)
    /\ pc' = "returned"
    /\ UNCHANGED <<orchestrators, arg>>

NextRun == call_run_command

SpecRun == InitRun /\ [][NextRun]_vars

RECURSIVE TrimLeft(_)
TrimLeft(s) ==
    IF s # <<>> /\ Head(s) \in {" ", "\n", "\t"} THEN TrimLeft(Tail(s)) ELSE s

RECURSIVE TrimRight(_)
TrimRight(s) ==
    IF s # <<>> /\ s[Len(s)] \in {" ", "\n", "\t"}
    THEN TrimRight(SubSeq(s, 1, Len(s) - 1)) ELSE s

\* a stream as the executor hands it on: without the whitespace around it
Trimmed(s) == TrimRight(TrimLeft(s))

CommandNotFound(argv0) ==
    <<"C","o","m","m","a","n","d"," ","n","o","t"," ","f","o","u","n","d",":"," ">> \o argv0

(***************************************************************************)
(* C12.  run_command always returns a triple (exit_code, stdout, stderr):  *)
(* exit_code is 0 exactly when the process exited 0; a process that exits  *)
(* with a non-zero code c gives (c, its stdout, its stderr), the streams   *)
(* trimmed as the executor captures them; an executable that is not found  *)
(* gives exactly (127, "", "Command not found: <argv[0]>").                *)
(***************************************************************************)
C12_RunCommandMapping ==
    pc = "returned" =>
        /\ DOMAIN ret = {"exit_code", "output", "error"}
        /\ ret.exit_code = 0 <=> (arg.proc.kind = "exit" /\ arg.proc.code = 0)
        /\ arg.proc.kind = "exit" =>
              ret = [exit_code |-> arg.proc.code,
                     output    |-> Trimmed(arg.proc.stdout),
                     error     |-> Trimmed(arg.proc.stderr)]
        /\ arg.proc.kind = "notfound" =>
              ret = [exit_code |-> 127,
                     output    |-> <<>>,
                     error     |-> CommandNotFound(arg.cmd[1].val)]

\* the executable is not found
C12_Witness ==
    /\ pc = "returned"
    /\ arg.cmd = c_this_does_not_exist
    /\ arg.proc.kind = "notfound"
    /\ ret.exit_code = 127
    /\ ret.output = <<>>
    /\ Len(ret.error) = Len(CommandNotFound(<<>>)) + 19

(***************************************************************************)
(* The program with a notifier that may fail in any way: with a            *)
(* RuntimeError, or with an error of another class, as a desktop session   *)
(* that cannot be reached gives (OSError).                                 *)
(***************************************************************************)
NotifierKinds == {"ok", "RuntimeError", "OSError"}

NotifyDocs == {Missing} \cup {TasksFile(<<r>>) : r \in RawRecords}

InitNotify ==
    /\ \E b \in NotifyDocs, o \in OptDocs :
          files = [n \in SourceNames |->
                      IF n = "base" THEN b
                      ELSE IF n = "apt" THEN AptDoc
                      ELSE IF n = "optional" THEN o
                      ELSE Missing]
    /\ \E x \in {"exit0", "notfound"} :
          probes = [m \in ManagerNames |-> IF m = "apt" THEN x ELSE "notfound"]
    /\ euid \in {0, 1000}
    /\ auto \in BOOLEAN
    /\ notifier \in NotifierKinds
    /\ pc = "entry"
    /\ caller = "entry"
    /\ menu_tasks = <<>>
    /\ selection = "none"
    /\ choice_num = 0
    /\ all_tasks = <<>>
    /\ auto_tasks = <<>>
    /\ task_counter = 1
    /\ results_list = <<>>
    /\ notifications = <<>>
    /\ ran = <<>>
    /\ console_out = <<>>
    /\ log = <<>>
    /\ arg = <<>>
    /\ ret = <<>>

SpecNotify == InitNotify /\ [][Next]_vars

(***************************************************************************)
(* C13.  A notifier failure is always non-fatal: whatever the notifier     *)
(* raises, send_notification returns normally and the batch or single-task *)
(* run goes on as if the notification had been sent; the program is never  *)
(* ended by a notification.                                                *)
(***************************************************************************)
C13_NotifierFailureNonFatal ==
    notifier # "ok" => pc # "crashed"

(***************************************************************************)
(* detect_package_manager on its own: how each probe ends is drawn, then   *)
(* the call returns the name and, for the properties, the probes it made.  *)
(***************************************************************************)
InitDetect ==
    /\ arg \in [ManagerNames -> ProbeOutcomes]
    /\ ret = <<>>
    /\ pc = "call"
    /\ log = <<>>
    /\ OrchestratorsIdle

\* pkg_manager = detect_package_manager()
call_detect_package_manager ==
    /\ pc = "call"
    /\ ret' = detect_package_manager(arg)
    /\ log' = Append(log, IF detect_package_manager(arg).name = None
                          THEN LogEntry("WARNING", "No supported package manager detected", 0)
                          ELSE LogEntry("INFO", "Detected package manager", 0))
    /\ pc' = "returned"
    /\ UNCHANGED <<orchestrators, arg>>

NextDetect == call_detect_package_manager

SpecDetect == InitDetect /\ [][NextDetect]_vars

FixedOrder == <<"apt", "dnf", "pacman", "zypper">>

\* the places in the fixed order whose probe exits 0
Available == {i \in DOMAIN FixedOrder : arg[FixedOrder[i]] = "exit0"}

\* the same probes with every failure turned into an absent executable
FailuresAlike == [m \in ManagerNames |-> IF arg[m] = "exit0" THEN "exit0" ELSE "notfound"]

(***************************************************************************)
(* C14.  detect_package_manager probes apt, dnf, pacman, zypper in this    *)
(* order and returns the first whose probe exits 0, probing none after it; *)
(* a probe that exits non-zero, times out or finds no executable only      *)
(* moves on to the next candidate, whichever of the three it is; the       *)
(* result is None exactly when no probe exits 0.                           *)
(***************************************************************************)
C14_FirstAvailableManager ==
    pc = "returned" =>
        /\ ret.name = None <=> Available = {}
        /\ Available = {} => ret.probed = FixedOrder
        /\ Available # {} =>
              LET first == CHOOSE i \in Available : \A j \in Available : i <= j
              IN  /\ ret.name = FixedOrder[first]
                  /\ ret.probed = SubSeq(FixedOrder, 1, first)
        /\ ret = detect_package_manager(FailuresAlike)

\* apt fails, dnf times out, pacman is found: zypper is not probed
C14_Witness ==
    /\ pc = "returned"
    /\ arg = [apt |-> "nonzero", dnf |-> "timeout", pacman |-> "exit0", zypper |-> "exit0"]
    /\ ret.name = "pacman"
    /\ ret.probed = <<"apt", "dnf", "pacman">>

(***************************************************************************)
(* validate_task on its own: a raw record is drawn, each of its fields     *)
(* absent, well-formed or ill-formed in one of several ways, then the call *)
(* returns.                                                                *)
(***************************************************************************)
Absent == [tag |-> "absent", val |-> 0]

s_apt == <<"a","p","t">>

NameOptions        == {Absent, JStr(<<"x">>), JStr(<<" ">>), JInt(5)}
DescriptionOptions == {Absent, JStr(<<"d">>), JStr(<<>>), JNull}
CommandItems       == {JStr(s_apt), JInt(5)}
CommandOptions     ==
    {Absent, JStr(s_apt)} \cup {JList(c) : c \in SeqsUpTo(CommandItems, MaxCommandLen)}
AutoSafeOptions    == {Absent, JBool(TRUE), JInt(1)}
SudoOptions        == {Absent, JBool(FALSE), JStr(<<"n","o">>)}
RiskOptions        == {Absent, JStr(<<"l","o","w">>), JStr(<<"L","o","w">>), JInt(5)}
CheckOptions       == {Absent, JList(<<>>), JStr(<<"x">>)}

FieldNames ==
    {"name", "description", "command", "auto_safe", "requires_sudo", "risk_level",
     "check_command"}

\* the mapping that has the fields of choice that are not absent
RecordOf(choice) ==
    JDict([k \in {f \in FieldNames : choice[f] # Absent} |-> choice[k]])

RawRecordChoices ==
    [name : NameOptions, description : DescriptionOptions, command : CommandOptions,
     auto_safe : AutoSafeOptions, requires_sudo : SudoOptions, risk_level : RiskOptions,
     check_command : CheckOptions]

InitValidate ==
    /\ \E choice \in RawRecordChoices : arg = RecordOf(choice)
    /\ ret = <<>>
    /\ pc = "call"
    /\ log = <<>>
    /\ OrchestratorsIdle

\* is_valid, error_msg = validate_task(task)
call_validate_task ==
    /\ pc = "call"
    /\ ret' = validate_task(arg)
    /\ pc' = "returned"
    /\ UNCHANGED <<orchestrators, arg, log>>

NextValidate == call_validate_task

SpecValidate == InitValidate /\ [][NextValidate]_vars

\* the specified checks on a mapping t, each true when the check fails
Field(t, k) == IF k \in DOMAIN t THEN t[k] ELSE Absent

NonBlankText(v) == v.tag = "str" /\ Trimmed(v.val) # <<>>

RequiredKeys == <<"name", "description", "command">>

MissingKeys(t) == {i \in DOMAIN RequiredKeys : RequiredKeys[i] \notin DOMAIN t}

NonStrings(c) == {i \in DOMAIN c : c[i].tag # "str"}

CheckFails(k, t) ==
    IF k = 1 THEN MissingKeys(t) # {}
    ELSE IF k = 2
    THEN ~NonBlankText(Field(t, "name")) \/ ~NonBlankText(Field(t, "description"))
    ELSE IF k = 3
    THEN LET c == Field(t, "command")
         IN  c.tag # "list" \/ c.val = <<>> \/ NonStrings(c.val) # {}
    ELSE IF k = 4
    THEN \E f \in {"auto_safe", "requires_sudo"} : f \in DOMAIN t /\ t[f].tag # "bool"
    ELSE IF k = 5
    THEN /\ "risk_level" \in DOMAIN t
         /\ ~ /\ t["risk_level"].tag = "str"
              /\ t["risk_level"].val \in
                    {<<"l","o","w">>, <<"m","e","d","i","u","m">>, <<"h","i","g","h">>}
    ELSE "check_command" \in DOMAIN t /\ t["check_command"].tag # "list"

FailingChecks(t) == {k \in 1..6 : CheckFails(k, t)}

Least(S) == CHOOSE i \in S : \A j \in S : i <= j

\* the reason of check k, which fails on t; idx and type say which key is
\* missing and which command item is no string
ReasonOf(k, t) ==
    IF k = 1
    THEN [msg |-> "Missing required field", idx |-> Least(MissingKeys(t)), type |-> ""]
    ELSE IF k = 2
    THEN [msg |-> IF ~NonBlankText(t["name"])
                  THEN "Field 'name' must be a non-empty string"
                  ELSE "Field 'description' must be a non-empty string",
          idx |-> 0, type |-> ""]
    ELSE IF k = 3
    THEN LET c == t["command"]
         IN  IF c.tag # "list" \/ c.val = <<>>
             THEN [msg |-> "Field 'command' must be a non-empty list", idx |-> 0, type |-> ""]
             ELSE LET at == Least(NonStrings(c.val))
                  IN  [msg  |-> "Command item must be a string",
                       idx  |-> at - 1,       \* indexes count from 0
                       type |-> IF c.val[at].tag = "null" THEN "NoneType"
                                ELSE c.val[at].tag]
    ELSE IF k = 4
    THEN [msg |-> IF "auto_safe" \in DOMAIN t /\ t["auto_safe"].tag # "bool"
                  THEN "Field 'auto_safe' must be a boolean"
                  ELSE "Field 'requires_sudo' must be a boolean",
          idx |-> 0, type |-> ""]
    ELSE IF k = 5
    THEN [msg |-> "Field 'risk_level' must be one of low, medium, high",
          idx |-> 0, type |-> ""]
    ELSE [msg |-> "Field 'check_command' must be a list", idx |-> 0, type |-> ""]

(***************************************************************************)
(* C15.  validate_task agrees with the six ordered checks for every raw    *)
(* record (a mapping of keys to values): it returns (true, "") exactly     *)
(* when no check fails, and otherwise false with the reason of the first   *)
(* failing check: the missing key; the blank name or description; the      *)
(* command that is no non-empty list, or the index and type of its first   *)
(* item that is no string (index 1, int, for ["apt", 5]); the auto_safe or *)
(* requires_sudo that is no boolean; the risk_level outside low, medium,   *)
(* high; the check_command that is no list.                                *)
(***************************************************************************)
C15_ValidatorAgreesWithChecks ==
    pc = "returned" =>
        LET t       == arg.val
            failing == FailingChecks(t)
        IN  /\ ~ret.raised
            /\ ret.valid <=> failing = {}
            /\ failing = {} => ret.msg = ""
            /\ failing # {} =>
                  LET reason == ReasonOf(Least(failing), t)
                  IN  /\ ret.msg  = reason.msg
                      /\ ret.idx  = reason.idx
                      /\ ret.type = reason.type

\* command ["apt", 5] in a record whose later fields are wrong as well
C15_Witness ==
    /\ pc = "returned"
    /\ {"name", "description", "command"} \subseteq DOMAIN arg.val
    /\ arg.val["name"] = JStr(<<"x">>)
    /\ arg.val["description"] = JStr(<<"d">>)
    /\ arg.val["command"] = JList(<<JStr(s_apt), JInt(5)>>)
    /\ "auto_safe" \in DOMAIN arg.val /\ arg.val["auto_safe"].tag = "int"
    /\ ~ret.valid
    /\ ret.msg = "Command item must be a string"
    /\ ret.idx = 1
    /\ ret.type = "int"

(***************************************************************************)
(* summarize_update_output on its own: an output of up to MaxLines lines,  *)
(* with or without a final newline, is drawn, then the call returns.       *)
(***************************************************************************)
l_can_be_upgraded ==
    <<"3"," ","p","a","c","k","a","g","e","s"," ","c","a","n"," ","b","e"," ",
      "u","p","g","r","a","d","e","d",".">>
l_up_to_date ==
    <<" ","A","l","l"," ","P","A","C","K","A","G","E","S"," ","a","r","e"," ",
      "u","p"," ","t","o"," ","d","a","t","e","."," ">>
l_done  == <<"d","o","n","e">>
l_blank == <<" ">>
l_empty == <<>>

LineTexts == {l_can_be_upgraded, l_up_to_date, l_done, l_blank, l_empty}

Outputs ==
    UNION {{JoinLines(ls), JoinLines(ls) \o <<"\n">>} : ls \in SeqsUpTo(LineTexts, MaxLines)}

InitUpdateSummary ==
    /\ arg \in Outputs
    /\ ret = <<>>
    /\ pc = "call"
    /\ log = <<>>
    /\ OrchestratorsIdle

\* processed_output = summarize_update_output(output)
call_summarize_update_output ==
    /\ pc = "call"
    /\ ret' = summarize_update_output(arg)
    /\ pc' = "returned"
    /\ UNCHANGED <<orchestrators, arg, log>>

NextUpdateSummary == call_summarize_update_output

SpecUpdateSummary == InitUpdateSummary /\ [][NextUpdateSummary]_vars

\* the line says one of the two things the update family looks for
SaysUpdateState(line) ==
    \/ Contains(Lower(line),
                <<"p","a","c","k","a","g","e","s"," ","c","a","n"," ","b","e"," ",
                  "u","p","g","r","a","d","e","d">>)
    \/ Contains(Lower(line),
                <<"a","l","l"," ","p","a","c","k","a","g","e","s"," ","a","r","e"," ",
                  "u","p"," ","t","o"," ","d","a","t","e">>)

Greatest(S) == CHOOSE i \in S : \A j \in S : j <= i

EnvDocs == {Missing, TasksFile(<<t_update>>), TasksFile(<<t_upgrade>>), TasksFile(<<t_clean>>)}

InitEnv ==
    /\ \E b \in EnvDocs :
          files = [n \in SourceNames |->
                      IF n = "base" THEN b
                      ELSE IF n = "apt" THEN AptDoc
                      ELSE Missing]
    /\ \E x \in {"exit0", "notfound"} :
          probes = [m \in ManagerNames |-> IF m = "apt" THEN x ELSE "notfound"]
    /\ euid \in {0, 1000}
    /\ auto \in BOOLEAN
    /\ notifier = "ok"
    /\ pc = "entry"
    /\ caller = "entry"
    /\ menu_tasks = <<>>
    /\ selection = "none"
    /\ choice_num = 0
    /\ all_tasks = <<>>
    /\ auto_tasks = <<>>
    /\ task_counter = 1
    /\ results_list = <<>>
    /\ notifications = <<>>
    /\ ran = <<>>
    /\ console_out = <<>>
    /\ log = <<>>
    /\ arg = <<>>
    /\ ret = <<>>

\* line 440: input() blocks, and meanwhile the files of the tasks directory
\* or the installed package managers change
environment_changes ==
    /\ pc = "main_loop"
    /\ \E b \in EnvDocs, x \in {"exit0", "notfound"} :
          /\ files' = [files EXCEPT !["base"] = b]
          /\ probes' = [probes EXCEPT !["apt"] = x]
    /\ <<files', probes'>> # <<files, probes>>
    /\ UNCHANGED <<euid, auto, notifier, call, pc, caller, menu_tasks, selection,
                   choice_num, all_tasks, auto_tasks, task_counter, results_list,
                   notifications, ran, console_out, log>>

NextEnv == Next \/ environment_changes

SpecEnv == InitEnv /\ [][NextEnv]_vars

(***************************************************************************)
(* C17.  The catalog is built once and is immutable for the run: the       *)
(* catalog the menu shows, from which a numbered selection takes its task, *)
(* is also the catalog from which the 'all' batch takes its tasks, even if *)
(* the task sources or the detected package manager have changed since the *)
(* menu was built.                                                         *)
(***************************************************************************)
C17_CatalogBuiltOnce ==
    /\ selection = "digits" /\ ran # <<>> => ran[1].task = menu_tasks[choice_num]
    /\ selection = "all" /\ pc # "call_run_all" =>
          /\ all_tasks = menu_tasks
          /\ \A i \in DOMAIN ran : \E j \in DOMAIN menu_tasks : ran[i].task = menu_tasks[j]

(***************************************************************************)
(* A batch run on its own (--auto), with the fairness of a sequential      *)
(* program: a statement that can run does run, and a launched command      *)
(* exits, so run_command returns.                                          *)
(***************************************************************************)
BatchDocs ==
    {Missing, TasksFile(<<t_clean>>), TasksFile(<<t_update>>),
     TasksFile(<<t_upgrade, t_update>>), TasksFile(<<t_update, t_nocommand>>),
     TasksFile(<<t_remove, t_update>>), TasksFile(<<t_update, t_update>>)}

InitBatch ==
    /\ \E b \in BatchDocs, o \in OptDocs :
          files = [n \in SourceNames |->
                      IF n = "base" THEN b
                      ELSE IF n = "apt" THEN AptDoc
                      ELSE IF n = "optional" THEN o
                      ELSE Missing]
    /\ \E x \in {"exit0", "notfound"} :
          probes = [m \in ManagerNames |-> IF m = "apt" THEN x ELSE "notfound"]
    /\ euid \in {0, 1000}
    /\ auto = TRUE
    /\ notifier = "ok"
    /\ pc = "entry"
    /\ caller = "entry"
    /\ menu_tasks = <<>>
    /\ selection = "none"
    /\ choice_num = 0
    /\ all_tasks = <<>>
    /\ auto_tasks = <<>>
    /\ task_counter = 1
    /\ results_list = <<>>
    /\ notifications = <<>>
    /\ ran = <<>>
    /\ console_out = <<>>
    /\ log = <<>>
    /\ arg = <<>>
    /\ ret = <<>>

NextBatch ==
    \/ run_all_tasks_begin
    \/ run_all_tasks_skip
    \/ run_all_tasks_run
    \/ run_all_tasks_fail
    \/ run_all_tasks_finish

SpecBatch == InitBatch /\ [][NextBatch]_vars /\ WF_vars(NextBatch)

\* the Result Record list has been handed to the Presentation layer: the
\* summary table with these records is the last thing printed
ResultsPresented ==
    /\ console_out # <<>>
    /\ console_out[Len(console_out)].text = "table: Maintenance Summary"
    /\ console_out[Len(console_out)].rows = results_list

\* no more commands were run than the auto-safe subset has tasks, and each
\* command run has its Result Record
WithinSubset ==
    /\ Len(ran) <= Len(AutoSubset(all_tasks))
    /\ Len(results_list) = Len(ran)

(***************************************************************************)
(* C18, as claimed.  In the terminal state of every batch run the Result   *)
(* Record list is handed to the Presentation layer, also when the run      *)
(* ended with no task executed.                                            *)
(***************************************************************************)
C18_Original ==
    pc = "exited" /\ all_tasks # <<>> => ResultsPresented

(***************************************************************************)
(* C18.  Every batch run reaches a terminal state, after running at most   *)
(* as many commands as the auto-safe subset has tasks; when that subset is *)
(* not empty the terminal state has the Result Record list handed to the   *)
(* Presentation layer, whether the tasks were exhausted, a failure halted  *)
(* the run or every task was skipped; when the catalog or the subset is    *)
(* empty the run ends with nothing run and no summary.                     *)
(***************************************************************************)
C18_TerminalState ==
    /\ WithinSubset
    /\ pc = "exited" /\ AutoSubset(all_tasks) # <<>> => ResultsPresented
    /\ pc = "exited" /\ AutoSubset(all_tasks) = <<>> =>
          /\ ran = <<>>
          /\ \A i \in DOMAIN console_out : console_out[i].text # "table: Maintenance Summary"

C18_BatchTerminates == [](C18_TerminalState) /\ <>(pc = "exited")

\* a run that a failure halted after one success, with both records shown
C18_Witness ==
    /\ pc = "exited"
    /\ Len(ran) = 2
    /\ ran[1].exit_code = 0
    /\ ran[2].exit_code # 0
    /\ Len(AutoSubset(all_tasks)) > 2
    /\ ResultsPresented

(***************************************************************************)
(* C19.  In single-task mode every task that is executed produces exactly  *)
(* one notification, 'Task Completed' with urgency Normal when the exit    *)
(* code is 0 and 'Task Error' with urgency Critical when it is not; a      *)
(* failed command does not end the session: main is at its prompt again.   *)
(* A numbered selection that runs nothing notifies nothing.                *)
(***************************************************************************)
\* main has run the task of a numbered selection
SingleRan == selection = "digits" /\ ran # <<>>

C19_SingleTaskNotifiesOnce ==
    /\ SingleRan =>
          /\ Len(ran) = 1
          /\ ran[1].origin = "single"
          /\ Len(notifications) = 1
          /\ ran[1].exit_code = 0 =>
                /\ notifications[1].title = "Task Completed"
                /\ notifications[1].urgency = "Normal"
          /\ ran[1].exit_code # 0 =>
                /\ notifications[1].title = "Task Error"
                /\ notifications[1].urgency = "Critical"
          /\ notifications[1].name = ran[1].task["name"].val
          /\ pc = "main_loop"
    /\ selection = "digits" /\ ran = <<>> => notifications = <<>>

\* the executable of the selected task is not found: one Critical
\* notification, and the prompt again
C19_Witness ==
    /\ SingleRan
    /\ ran[1].exit_code = 127
    /\ notifications = <<Notification("Task Error", 0, ran[1].task["name"].val, "Critical")>>
    /\ pc = "main_loop"

(***************************************************************************)
(* The summary of a command's output as each orchestrator makes it: a task *)
(* name and the stdout of its command are drawn; run_all_tasks or main     *)
(* runs the command and summarizes what run_command returned.              *)
(***************************************************************************)
n_update         == <<"S","y","s","t","e","m"," ","U","P","D","A","T","E">>
n_upgrade        == <<"u","p","g","r","a","d","e">>
n_remove         == <<"A","u","t","o","r","e","m","o","v","e">>
n_clean          == <<"c","l","e","a","n">>
n_remove_update  == <<"R","e","m","o","v","e"," ","u","p","d","a","t","e","s">>
n_remove_upgrade == <<"r","e","m","o","v","e","-","U","p","g","r","a","d","e">>
n_upgrade_update == <<"u","p","g","r","a","d","e"," ","&"," ","u","p","d","a","t","e">>

TaskNames ==
    {n_update, n_upgrade, n_remove, n_clean, n_remove_update, n_remove_upgrade,
     n_upgrade_update}

l_upgraded ==
    <<"1"," ","u","p","g","r","a","d","e","d",","," ","0"," ",
      "n","e","w","l","y"," ","i","n","s","t","a","l","l","e","d">>
l_removed == <<"R","e","m","o","v","e","d"," ","x">>

FamilyLines == {l_up_to_date, l_upgraded, l_removed, l_done, l_empty}

FamilyOutputs ==
    UNION {{JoinLines(ls), JoinLines(ls) \o <<"\n">>} : ls \in SeqsUpTo(FamilyLines, MaxLines)}

InitFamily ==
    /\ arg \in [name : TaskNames, stdout : FamilyOutputs]
    /\ ret = <<>>
    /\ pc = "call"
    /\ log = <<>>
    /\ OrchestratorsIdle

\* what run_command returns as output for a command that prints stdout
OutputOf(stdout) == run_command(c_true, ProcExit(0, stdout, <<>>)).output

\* lines 346-355
batch_summary ==
    /\ pc = "call"
    /\ ret' = [mode |-> "batch", summary |-> summarize(arg.name, OutputOf(arg.stdout))]
    /\ pc' = "returned"
    /\ UNCHANGED <<orchestrators, arg, log>>

\* lines 461-472
single_summary ==
    /\ pc = "call"
    /\ ret' = [mode |-> "single", summary |-> summarize_single(arg.name, OutputOf(arg.stdout))]
    /\ pc' = "returned"
    /\ UNCHANGED <<orchestrators, arg, log>>

NextFamily == batch_summary \/ single_summary

SpecFamily == InitFamily /\ [][NextFamily]_vars

\* word occurs in name, whatever the case of the letters of name
HasWord(name, word) ==
    \E k \in 0..(Len(name) - Len(word)) :
        \A j \in 1..Len(word) : LowerChar(name[k + j]) = word[j]

Precedence == <<"update", "upgrade", "remove">>

WordOf(family) ==
    IF family = "update" THEN <<"u","p","d","a","t","e">>
    ELSE IF family = "upgrade" THEN <<"u","p","g","r","a","d","e">>
    ELSE <<"r","e","m","o","v","e">>

\* the first family of the precedence whose keyword the name holds
FamilyOf(name) ==
    LET found == {i \in DOMAIN Precedence : HasWord(name, WordOf(Precedence[i]))}
    IN  IF found = {} THEN "generic" ELSE Precedence[Least(found)]

\* the reduction of a family, applied to the trimmed stdout
Reduced(family, out) ==
    IF family = "update" THEN summarize_update_output(out)
    ELSE IF family = "upgrade" THEN summarize_upgrade_output(out)
    ELSE IF family = "remove" THEN summarize_remove_output(out)
    ELSE IF out = <<>> THEN <<"-">> ELSE out

(***************************************************************************)
(* C20.  The summarizer family is a function of the task name alone, the   *)
(* same in batch mode and in single-task mode: the first of update,        *)
(* upgrade, remove whose keyword the name holds in any case, else the      *)
(* generic one (the trimmed stdout, or "-" when that is empty); a name     *)
(* with several keywords gets the first family of this precedence.         *)
(***************************************************************************)
C20_FamilyByNameInBothModes ==
    pc = "returned" =>
        ret.summary = Reduced(FamilyOf(arg.name), Trimmed(arg.stdout))

\* "Remove updates" in single-task mode is summarized as an update, and the
\* output is one that the remove family would summarize differently
C20_Witness ==
    /\ pc = "returned"
    /\ ret.mode = "single"
    /\ arg.name = n_remove_update
    /\ arg.stdout = JoinLines(<<l_removed, l_up_to_date, l_done>>) \o <<"\n">>
    /\ ret.summary = Trimmed(l_up_to_date)
    /\ ret.summary # Reduced("remove", Trimmed(arg.stdout))

(***************************************************************************)
(* C21.  In single-task mode the selection of a task that requires sudo by *)
(* a user who is not root ends the whole session: main returns at once,    *)
(* nothing is run, no notification is sent and no further selection is     *)
(* read.  A task whose command fails and a selection that is not valid     *)
(* leave main at its prompt.                                               *)
(***************************************************************************)
\* the selection read last is the number of a task that needs root, and the
\* user is not root
Denied ==
    /\ selection = "digits"
    /\ InMenu(choice_num, menu_tasks)
    /\ SudoMissing(menu_tasks[choice_num], euid)

\* the selection read last ran a task, and its command failed
SingleFailed == SingleRan /\ ran[1].exit_code # 0

\* the selection read last is a number outside the menu, or no selection
\* that main knows
InvalidSelection ==
    \/ selection = "digits" /\ ~InMenu(choice_num, menu_tasks)
    \/ selection = "other"

C21_SudoRefusalEndsSession ==
    [][/\ (pc = "main_loop" /\ Denied') =>
              /\ pc' = "exited"
              /\ notifications' = <<>>
              /\ ran' = <<>>
       /\ (pc = "main_loop" /\ SingleFailed') => pc' = "main_loop"
       /\ (pc = "main_loop" /\ InvalidSelection') => pc' = "main_loop"
       /\ pc = "exited" => pc' = "exited" /\ selection' = selection]_vars

\* the refusal at a menu that also holds a task this user may run: the
\* session is over all the same
C21_Witness ==
    /\ Denied
    /\ pc = "exited"
    /\ notifications = <<>>
    /\ ran = <<>>
    /\ console_out = <<Printed("panel: requires sudo", <<>>)>>
    /\ \E n \in 1..Len(menu_tasks) : ~SudoMissing(menu_tasks[n], euid)

====
